---- MODULE Spec2Model ----
(***************************************************************************)
(* One conversational turn of the PropertyTek chatbot: chat_endpoint       *)
(* builds the initial state, runs the compiled property workflow graph     *)
(* (analyze_intent ... generate_response) under a wall-clock timeout, and  *)
(* builds the response from the final state.                               *)
(*                                                                         *)
(* Python values are modelled as follows: None is the string "null"; a     *)
(* dict is a function whose DOMAIN is the set of keys present; a list is a *)
(* sequence.  The graph's state holds only the keys WorkflowState declares *)
(* (StateGraph(WorkflowState)): other keys of the input and of the deltas  *)
(* are not channels of the graph.                                          *)
(***************************************************************************)
EXTENDS Integers, Sequences, FiniteSets, TLC

VARIABLES
    config,         \* the config dict handed to workflow.ainvoke
    query,          \* features of request.query the nodes test
    initial_state,  \* chat_endpoint's initial_state dict
    state,          \* the graph's accumulated state during ainvoke
    current,        \* the node the graph runs next, or "END"
    steps,          \* node invocations of this run so far
    trace,          \* the nodes invoked so far, in order
    lastDelta,      \* the delta the last invoked node returned
    lastRaised,     \* whether the last invoked node's body raised
    failedNodes,    \* the nodes whose body raised during this run
    phase,          \* "start" | "booking" | "running" | "post" | "respond" |
                    \* "responded" | "faulted"
    outcome,        \* how ainvoke ended: "none" | "normal" | "timeout" | "exception",
                    \* or "booking" when the booking sub-flow ran in its place
    inFlight,       \* the node that was in flight when the timeout fired
    final_state,    \* chat_endpoint's final_state
    calendarCalls,  \* calendar_tool.create_calendar_event calls of this turn
    smsCalls,       \* sms_tool.send_appointment_confirmation calls of this turn
    response,       \* the ChatResponse returned to the caller
    booking_updates,\* what booking_flow_manager.process_user_action returned
    fault,          \* "none", or "http_500" when chat_endpoint raised HTTPException
    mergeLog,       \* a state, the deltas applied to it in order, and the result
                    \* (used where the merge is studied on its own)
    lastCall,       \* the state dict handed to the last invoked node, as it was
                    \* before the call and as the call left it, and what the
                    \* criteria extraction returned to that node
    turns,          \* the turns of one user that run concurrently, each with its
                    \* position in chat_endpoint and what it read and holds
    shared,         \* what concurrent turns share: the session store's filters
                    \* for the user and the module-level workflow_visualizer
                    \* (both used where concurrent turns are studied)
    tracker         \* "ok", or the tracking call of this turn in which the
                    \* workflow_visualizer raised

vars == <<config, query, initial_state, state, current, steps, trace, lastDelta,
          lastRaised, failedNodes, phase, outcome, inFlight, final_state, calendarCalls,
          smsCalls, response, booking_updates, fault, mergeLog, lastCall, turns, shared, tracker>>

----------------------------------------------------------------------------
(* Program constants *)

RecursionLimit == 10
DefaultMaxSearchIterations == 3
DefaultMaxResearchLoops == 1

(* Bounds of the model *)

SmallRecursionLimit == 3
MaxConfiguredLoops == 2
MaxDeltas == 2
MaxSearchCount == 4

Null == "null"
EmptyDict == << >>

NodeNames == {"analyze_intent", "search_properties", "reflect", "get_available_slots",
              "collect_user_info", "create_calendar_event", "send_sms_confirmation",
              "generate_response"}

\* WorkflowState's declared keys (those the model tracks)
SchemaKeys == {"intent", "properties", "search_filters", "reflection_notes",
               "needs_more_research", "fallback_context", "available_slots",
               "selected_slot", "appointment_details", "user_name", "user_email",
               "user_phone", "user_pets", "calendar_event_id", "sms_sent",
               "response_message", "suggested_actions", "error", "next_step",
               "workflow_complete", "reflection_loops", "search_iterations"}

\* the intents analyze_intent can produce: the six the classifier names, a
\* string outside them, and null (the classifier's JSON holds "intent": null)
Intents == {"property_search", "schedule_tour", "confirm_booking", "non_property",
            "greeting", "ask_question", "something_else", Null}

FilterKeys == {"address", "bedrooms"}
FilterValues(k) == IF k = "address" THEN {Null, "austin", "paris"} ELSE {Null, "2"}
TexasCities == {"austin"}

\* what extract_search_criteria returns: every key, None where nothing was found
ExtractedCriteria == {f \in [FilterKeys -> {Null, "austin", "paris", "2"}] :
                        \A k \in FilterKeys : f[k] \in FilterValues(k)}

\* the filters the session store holds for the user at the start of the turn
PriorFilters == {EmptyDict, [address |-> "austin", bedrooms |-> Null],
                 [address |-> Null, bedrooms |-> "2"]}

UserInfoFields == {"name", "email", "phone", "pets"}
RequestUserInfos == {EmptyDict, [name |-> "Ann", email |-> "a@b.co", phone |-> "5551234567"]}

\* the action types that chat_endpoint hands to the booking sub-flow
BookingActions == {"inquire", "book_schedule", "select_slot", "provide_info",
                   "cancel_booking"}

\* property ids a request can carry: none, one the catalog holds, one it does not
PropertyIds == {Null, "p1", "p9"}
CatalogIds == {"p1"}

SelectedSlots == {Null, "2026-01-02 09:00:00"}

\* a value each field's validation rule accepts
ValidValue(field) ==
    CASE field = "name" -> "Ann"
      [] field = "email" -> "a@b.co"
      [] field = "phone" -> "5551234567"
      [] field = "pets" -> "Dogs"

\* user_info holding any subset of the fields, each with a valid value
ValidUserInfos == {[f \in S |-> ValidValue(f)] : S \in SUBSET UserInfoFields}

\* user_info of a booking request: the fields supplied so far; "bad" fails
\* its field's validation rule, "" is an empty value
BookingUserInfos ==
    ValidUserInfos
    \cup {[name |-> "bad"],
          [name |-> ""],
          [phone |-> "bad"],
          [name |-> "Ann", email |-> "bad"],
          [name |-> "bad", email |-> "bad"],
          [name |-> "Ann", email |-> "a@b.co", phone |-> "5551234567", pets |-> "bad"],
          [name |-> "Ann", email |-> "bad", phone |-> "5551234567", pets |-> "Dogs"]}

\* a request that goes to the main graph (no booking action)
GraphRequests ==
    {[action_type |-> Null, property_id |-> Null, selected_slot |-> Null, user_info |-> ui] :
        ui \in RequestUserInfos}

BookingRequests ==
    [action_type : BookingActions, property_id : PropertyIds,
     selected_slot : SelectedSlots, user_info : BookingUserInfos]

----------------------------------------------------------------------------
(* dict helpers *)

Get(d, k, default) == IF k \in DOMAIN d THEN d[k] ELSE default

\* a merge in which a key the state already holds keeps its value
MergeFirstWins(s, d) ==
    [k \in (DOMAIN s) \cup (DOMAIN d) |-> IF k \in DOMAIN s THEN s[k] ELSE d[k]]

Merge(s, d) == [k \in (DOMAIN s) \cup (DOMAIN d) |-> IF k \in DOMAIN d THEN d[k] ELSE s[k]]

Restrict(d, keys) == [k \in (DOMAIN d) \cap keys |-> d[k]]

Count(seq, x) == Cardinality({i \in 1..Len(seq) : seq[i] = x})

NonEmptyValue(v) == v # Null /\ v # ""

\* a dict-valued field that is None or {} (both falsy) is the empty function
NonEmptyDict(d) == DOMAIN d # {}

\* list-valued and optional-string-valued fields, with the values a state or
\* a delta can hold for them (the empty list and null included)
ListValues == {<< >>, <<"p1">>, <<"p1", "p2">>}
StringValues == {Null, "e1", "e2"}

\* the dicts over the keys properties and error: any subset of the keys, any
\* value for each
MergeDicts ==
    {EmptyDict}
    \cup {[properties |-> p] : p \in ListValues}
    \cup {[error |-> e] : e \in StringValues}
    \cup {[properties |-> p, error |-> e] : p \in ListValues, e \in StringValues}

NoMerge == [base |-> EmptyDict, deltas |-> << >>, result |-> EmptyDict]

NoCall == [before |-> EmptyDict, after |-> EmptyDict, extracted |-> EmptyDict]

\* no concurrent turns are under study
NoTurns == << >>

NoShared == << >>

----------------------------------------------------------------------------
(* chat_endpoint: the initial state of a turn *)

InitialState(request, prior_filters) ==
    [ action_type |-> request.action_type,
      property_id |-> request.property_id,
      selected_slot |-> request.selected_slot,
      user_info |-> request.user_info,
      intent |-> Null,
      properties |-> << >>,
      search_filters |-> prior_filters,
      reflection_notes |-> Null,
      needs_more_research |-> Null,
      reflection_loops |-> 0,
      available_slots |-> << >>,
      appointment_details |-> EmptyDict,
      user_name |-> Null,
      user_email |-> Null,
      user_phone |-> Null,
      user_pets |-> Null,
      calendar_event_id |-> Null,
      sms_sent |-> Null,
      response_message |-> "",
      suggested_actions |-> << >>,
      current_step |-> "property_search",
      requires_user_info |-> FALSE,
      property_details |-> Null,
      error |-> Null,
      next_step |-> Null,
      workflow_complete |-> FALSE,
      next_field |-> Null,
      missing_fields |-> << >>,
      info_prompt |-> Null ]

\* the config chat_endpoint passes to ainvoke
EndpointConfig ==
    [recursion_limit |-> RecursionLimit,
     max_search_iterations |-> DefaultMaxSearchIterations,
     max_research_loops |-> DefaultMaxResearchLoops]

\* the run configurations a turn is studied under: the endpoint's keys with a
\* range of values, and the endpoint's config with SMS switched off
RunConfigs ==
    [recursion_limit : {SmallRecursionLimit, RecursionLimit},
     max_search_iterations : {DefaultMaxSearchIterations},
     max_research_loops : 0..MaxConfiguredLoops]
    \cup {Merge(EndpointConfig, [enable_sms |-> FALSE])}

Init ==
    /\ config \in RunConfigs
    /\ query \in [hints : BOOLEAN, nonProperty : BOOLEAN]
    /\ \E request \in GraphRequests \cup BookingRequests, pf \in PriorFilters :
          /\ initial_state = InitialState(request, pf)
          \* the graph's inputs play no part in a booking turn: one value each
          /\ request.action_type \in BookingActions =>
                /\ config = EndpointConfig
                /\ query = [hints |-> FALSE, nonProperty |-> FALSE]
                /\ pf = EmptyDict
    /\ state = Restrict(initial_state, SchemaKeys)
    /\ current = "analyze_intent"
    /\ steps = 0
    /\ trace = << >>
    /\ lastDelta = EmptyDict
    /\ lastRaised = FALSE
    /\ failedNodes = {}
    /\ phase = "start"
    /\ outcome = "none"
    /\ inFlight = "none"
    /\ final_state = EmptyDict
    /\ calendarCalls = 0
    /\ smsCalls = 0
    /\ response = EmptyDict
    /\ booking_updates = EmptyDict
    /\ fault = "none"
    /\ mergeLog = NoMerge
    /\ lastCall = NoCall
    /\ turns = NoTurns
    /\ shared = NoShared
    /\ tracker = "ok"

\* a dispatch that sends every turn, booking actions included, to the graph
LoadContextGraphOnly ==
    /\ phase = "start"
    /\ \E history_ok \in BOOLEAN, filters_ok \in BOOLEAN :
          IF history_ok /\ filters_ok
          THEN /\ phase' = "running"
               /\ UNCHANGED fault
          ELSE /\ phase' = "faulted"
               /\ fault' = "http_500"
    /\ UNCHANGED <<config, query, initial_state, state, current, steps, trace, lastDelta,
                   lastRaised, failedNodes, outcome, inFlight, final_state, calendarCalls,
                   smsCalls, response, booking_updates, mergeLog, lastCall,
                   turns, shared, tracker>>

\* chat_endpoint up to the dispatch: start_execution, the chat history and the
\* session filters are read from their stores (a tracker or a store that
\* raises is turned into HTTPException 500 by the outer handler), then the turn
\* goes to the booking sub-flow or to the graph
LoadContext ==
    /\ phase = "start"
    /\ \E tracker_ok \in BOOLEAN, history_ok \in BOOLEAN, filters_ok \in BOOLEAN :
          /\ tracker' = IF tracker_ok THEN tracker ELSE "start_execution"
          /\ IF tracker_ok /\ history_ok /\ filters_ok
             THEN /\ phase' = IF initial_state["action_type"] \in BookingActions
                              THEN "booking" ELSE "running"
                  /\ UNCHANGED fault
             ELSE /\ phase' = "faulted"
                  /\ fault' = "http_500"
    /\ UNCHANGED <<config, query, initial_state, state, current, steps, trace, lastDelta,
                   lastRaised, failedNodes, outcome, inFlight, final_state, calendarCalls,
                   smsCalls, response, booking_updates, mergeLog, lastCall,
                   turns, shared>>

----------------------------------------------------------------------------
(* workflows/booking_flow.py: the booking sub-flow *)

required_fields_order == <<"name", "email", "phone", "pets">>

\* Python truthiness of a user_info value
Filled(user_info, field) == NonEmptyValue(Get(user_info, field, Null))

\* a list of the fields the request did not name, which misses the fields
\* named with an empty value
MissingFieldsAbsentOnly(user_info) ==
    SelectSeq(required_fields_order, LAMBDA f : f \notin DOMAIN user_info)

\* the required fields without a value, in the fixed order
MissingFields(user_info) ==
    SelectSeq(required_fields_order, LAMBDA f : ~Filled(user_info, f))

\* the field asked for is the last one of the order without a value
next_missing_field_last(user_info) ==
    IF Len(MissingFields(user_info)) = 0 THEN Null
    ELSE MissingFields(user_info)[Len(MissingFields(user_info))]

\* _next_missing_field: the first field of the order without a value, or None
next_missing_field(user_info) ==
    IF Len(MissingFields(user_info)) = 0 THEN Null ELSE Head(MissingFields(user_info))

prompt_for_field(field_name) ==
    CASE field_name = "name" -> "What's your full name?"
      [] field_name = "email" -> "What's your email address?"
      [] field_name = "phone" -> "What's your phone number?"
      [] field_name = "pets" -> "Do you have any pets? If yes, please specify."
      [] OTHER -> "Please provide the requested information."

\* a validation that only checks that a value is there
validate_user_field_required_only(field_name, value) == value \in {Null, ""}

\* _validate_user_field: TRUE when the value breaks the field's rule (an empty
\* value is "required"; "bad" stands for a value the field's pattern rejects)
validate_user_field(field_name, value) == value \in {Null, "", "bad"}

handle_cancel ==
    [current_step |-> "property_search",
     response_message |-> "Booking canceled. You can start again when ready.",
     available_slots |-> << >>,
     requires_user_info |-> FALSE,
     next_field |-> Null,
     missing_fields |-> << >>,
     info_prompt |-> Null,
     appointment_details |-> EmptyDict,
     workflow_complete |-> FALSE,
     suggested_actions |-> <<"search_properties", "book_schedule">>]

handle_property_search ==
    [current_step |-> "property_search",
     response_message |-> "Here are the available properties.",
     suggested_actions |-> <<"inquire", "book_schedule">>]

\* the state of a booking turn holds no properties, so the catalog is asked;
\* a catalog that raises leaves no selected property
handle_property_inquiry(s, catalog_ok) ==
    IF ~(catalog_ok /\ s["property_id"] \in CatalogIds)
    THEN [response_message |-> "Property not found. Please try again.",
          current_step |-> "property_search"]
    ELSE [current_step |-> "property_details",
          response_message |-> "Here are the details for this property:",
          property_details |-> s["property_id"],
          suggested_actions |-> <<"book_schedule", "back_to_search">>]

\* _generate_available_slots: the next days' fixed slots
GeneratedSlots == <<"2026-01-02 09:00:00", "2026-01-02 11:00:00">>

handle_booking_request(s) ==
    IF ~NonEmptyValue(s["property_id"])
    THEN [response_message |-> "Please select a property first.",
          current_step |-> "property_search"]
    ELSE [current_step |-> "slot_selection",
          response_message |-> "Please select an available time slot for your property visit:",
          available_slots |-> GeneratedSlots,
          suggested_actions |-> <<"select_slot", "cancel_booking">>]

\* a booking record that leaves out the property and the slot of the turn
handle_booking_confirmation_unreferenced(s) ==
    LET user_info == s["user_info"] IN
    [current_step |-> "booking_complete",
     response_message |-> "Great! Your appointment has been scheduled.",
     appointment_details |-> [property_id |-> Null,
                              slot |-> Null,
                              user_name |-> Get(user_info, "name", Null),
                              user_email |-> Get(user_info, "email", Null),
                              user_phone |-> Get(user_info, "phone", Null),
                              user_pets |-> Get(user_info, "pets", "Not specified")],
     workflow_complete |-> TRUE,
     suggested_actions |-> <<"booking_confirmed", "new_search">>]

handle_booking_confirmation(s) ==
    LET user_info == s["user_info"] IN
    [current_step |-> "booking_complete",
     response_message |-> "Great! Your appointment has been scheduled.",
     appointment_details |-> [property_id |-> s["property_id"],
                              slot |-> s["selected_slot"],
                              user_name |-> Get(user_info, "name", Null),
                              user_email |-> Get(user_info, "email", Null),
                              user_phone |-> Get(user_info, "phone", Null),
                              user_pets |-> Get(user_info, "pets", "Not specified")],
     workflow_complete |-> TRUE,
     suggested_actions |-> <<"booking_confirmed", "new_search">>]

\* the reply that asks for the next missing field
AskForField(user_info, response_message) ==
    [current_step |-> "info_collection",
     response_message |-> response_message,
     requires_user_info |-> TRUE,
     missing_fields |-> MissingFields(user_info),
     next_field |-> next_missing_field(user_info),
     info_prompt |-> prompt_for_field(next_missing_field(user_info)),
     suggested_actions |-> <<"provide_info", "cancel_booking">>]

handle_slot_selection(s) ==
    IF ~NonEmptyValue(s["selected_slot"])
    THEN [response_message |-> "Please select a time slot.",
          current_step |-> "slot_selection"]
    ELSE IF next_missing_field(s["user_info"]) # Null
    THEN AskForField(s["user_info"],
                     "To complete your booking, please provide the following information:")
    ELSE handle_booking_confirmation(s)

\* the supplied fields that fail their rule, in the fixed order
InvalidFields(user_info) ==
    SelectSeq(required_fields_order,
              LAMBDA f : f \in DOMAIN user_info /\ validate_user_field(f, user_info[f]))

handle_info_collection(s) ==
    LET user_info == s["user_info"] IN
    IF s["action_type"] = "provide_info" /\ Len(InvalidFields(user_info)) > 0
    THEN LET field_name == Head(InvalidFields(user_info)) IN
         [current_step |-> "info_collection",
          response_message |-> "Invalid field. Please try again:",
          requires_user_info |-> TRUE,
          next_field |-> field_name,
          info_prompt |-> prompt_for_field(field_name),
          validation_error |-> TRUE,
          suggested_actions |-> <<"provide_info", "cancel_booking">>]
    ELSE IF next_missing_field(user_info) # Null
    THEN AskForField(user_info, prompt_for_field(next_missing_field(user_info)))
    ELSE handle_booking_confirmation(s)

process_user_action(s, catalog_ok) ==
    CASE s["action_type"] = "inquire" -> handle_property_inquiry(s, catalog_ok)
      [] s["action_type"] = "book_schedule" -> handle_booking_request(s)
      [] s["action_type"] = "select_slot" -> handle_slot_selection(s)
      [] s["action_type"] = "provide_info" -> handle_info_collection(s)
      [] s["action_type"] = "cancel_booking" -> handle_cancel
      [] OTHER -> handle_property_search

\* chat_endpoint for a booking action: the handler's result is written into
\* initial_state, which is the turn's final state; the graph is not run
BookingFlow ==
    /\ phase = "booking"
    /\ \E catalog_ok \in BOOLEAN, tracker_ok \in BOOLEAN :
          LET updates == process_user_action(initial_state, catalog_ok) IN
          /\ booking_updates' = updates
          /\ initial_state' = Merge(initial_state, updates)
          /\ tracker' = IF tracker_ok THEN tracker ELSE "booking_flow"
          \* the handler's result is tracked before the final state is set
          /\ IF tracker_ok
             THEN /\ final_state' = Merge(initial_state, updates)
                  /\ outcome' = "booking"
                  /\ phase' = "post"
                  /\ UNCHANGED fault
             ELSE /\ phase' = "faulted"
                  /\ fault' = "http_500"
                  /\ UNCHANGED <<final_state, outcome>>
    /\ UNCHANGED <<config, query, state, current, steps, trace, lastDelta, lastRaised,
                   failedNodes, inFlight, calendarCalls, smsCalls, response, mergeLog, lastCall,
                   turns, shared>>

----------------------------------------------------------------------------
(* graph.py: the routing functions *)

\* the intent map with search_properties as the default route
route_from_intent_default_search(s) ==
    LET intent == Get(s, "intent", "general_info") IN
    CASE intent = "schedule_tour" -> "get_available_slots"
      [] intent = "confirm_booking" -> "create_calendar_event"
      [] intent = "non_property" -> "generate_response"
      [] OTHER -> "search_properties"

route_from_intent(s) ==
    LET intent == Get(s, "intent", "general_info") IN
    CASE intent = "property_search" -> "search_properties"
      [] intent = "schedule_tour" -> "get_available_slots"
      [] intent = "confirm_booking" -> "create_calendar_event"
      [] intent = "non_property" -> "generate_response"
      [] OTHER -> "generate_response"

FallbackType(fc) == Get(fc, "type", Null)

\* the route after search_properties without the need_criteria test
route_after_search_no_criteria_test(s) ==
    LET search_count == Get(s, "search_iterations", 0)
        max_iterations == Get(s, "max_search_iterations", DefaultMaxSearchIterations)
        properties == Get(s, "properties", << >>)
    IN  IF search_count >= max_iterations THEN "generate_response"
        ELSE IF Len(properties) > 0 THEN "generate_response"
        ELSE "reflect"

route_after_search(s) ==
    LET fallback_context == Get(s, "fallback_context", EmptyDict)
        search_count == Get(s, "search_iterations", 0)
        max_iterations == Get(s, "max_search_iterations", DefaultMaxSearchIterations)
        properties == Get(s, "properties", << >>)
    IN  IF FallbackType(fallback_context) = "need_criteria" THEN "generate_response"
        ELSE IF search_count >= max_iterations THEN "generate_response"
        ELSE IF Len(properties) > 0 THEN "generate_response"
        ELSE "reflect"

route_after_slots(s) == "collect_user_info"

\* the route after collect_user_info with user_pets left out of the test
route_after_user_info_no_pets(s) ==
    IF \A field \in {"user_name", "user_email", "user_phone"} :
          NonEmptyValue(Get(s, field, Null))
    THEN "create_calendar_event"
    ELSE "generate_response"

route_after_user_info(s) ==
    IF \A field \in {"user_name", "user_email", "user_phone", "user_pets"} :
          NonEmptyValue(Get(s, field, Null))
    THEN "create_calendar_event"
    ELSE "generate_response"

route_after_calendar(s) ==
    IF NonEmptyValue(Get(s, "calendar_event_id", Null)) THEN "send_sms_confirmation"
    ELSE "generate_response"

\* reflect's router without the membership test on next_step
route_after_reflect_unchecked(s) ==
    IF Get(s, "reflection_loops", 0) >= Get(s, "max_research_loops", DefaultMaxResearchLoops)
    THEN "generate_response"
    ELSE Get(s, "next_step", "generate_response")

route_after_reflect(s) ==
    LET reflection_count == Get(s, "reflection_loops", 0)
        max_loops == Get(s, "max_research_loops", DefaultMaxResearchLoops)
        next_step == Get(s, "next_step", "generate_response")
    IN  IF reflection_count >= max_loops THEN "generate_response"
        ELSE IF next_step \in {"search_properties", "generate_response"} THEN next_step
        ELSE "generate_response"

route_after_sms(s) == "generate_response"

\* the path map declared for each node in add_conditional_edges (every map
\* sends a name to the node of that name), and generate_response's edge to END
DeclaredEdges(node) ==
    CASE node = "analyze_intent" -> {"search_properties", "get_available_slots",
                                     "create_calendar_event", "generate_response"}
      [] node = "search_properties" -> {"reflect", "generate_response"}
      [] node = "reflect" -> {"search_properties", "generate_response"}
      [] node = "get_available_slots" -> {"collect_user_info", "generate_response"}
      [] node = "collect_user_info" -> {"create_calendar_event", "generate_response"}
      [] node = "create_calendar_event" -> {"send_sms_confirmation", "generate_response"}
      [] node = "send_sms_confirmation" -> {"generate_response"}
      [] node = "generate_response" -> {"END"}

\* add_conditional_edges / add_edge: the router of each node
Router(node, s) ==
    CASE node = "analyze_intent" -> route_from_intent(s)
      [] node = "search_properties" -> route_after_search(s)
      [] node = "reflect" -> route_after_reflect(s)
      [] node = "get_available_slots" -> route_after_slots(s)
      [] node = "collect_user_info" -> route_after_user_info(s)
      [] node = "create_calendar_event" -> route_after_calendar(s)
      [] node = "send_sms_confirmation" -> route_after_sms(s)
      [] node = "generate_response" -> "END"

----------------------------------------------------------------------------
(* base.py: error_handler, and the graph's merge-then-route step *)

\* reflect left without its @error_handler
ErrorHandledButReflect == NodeNames \ {"generate_response", "reflect"}

\* the nodes whose method carries @error_handler
ErrorHandled == NodeNames \ {"generate_response"}

error_handler(delta, raised) == IF raised THEN [error |-> "node_failure"] ELSE delta

\* the timeout's final state without the terminal flag
TimeoutStateNotComplete ==
    Merge(initial_state,
          [response_message |-> "timeout_apology",
           suggested_actions |-> <<"Try a simpler query", "Contact support", "Ask for help">>,
           error |-> "workflow_timeout"])

\* the timeout's final state built on the graph's state instead of initial_state
TimeoutStateFromState ==
    Merge(Merge(initial_state, state),
          [response_message |-> "timeout_apology",
           suggested_actions |-> <<"Try a simpler query", "Contact support", "Ask for help">>,
           error |-> "workflow_timeout",
           workflow_complete |-> TRUE])

\* the timeout's final state without its error marker
TimeoutStateNoMarker ==
    Merge(initial_state,
          [response_message |-> "timeout_apology",
           suggested_actions |-> <<"Try a simpler query", "Contact support", "Ask for help">>,
           workflow_complete |-> TRUE])

\* chat_endpoint's final_state when ainvoke times out
TimeoutState ==
    Merge(initial_state,
          [response_message |-> "timeout_apology",
           suggested_actions |-> <<"Try a simpler query", "Contact support", "Ask for help">>,
           error |-> "workflow_timeout",
           workflow_complete |-> TRUE])

\* chat_endpoint's final_state when ainvoke raises
ExceptionState ==
    Merge(initial_state,
          [response_message |-> "error_apology",
           suggested_actions |-> <<"Try again", "Contact support", "Ask for help">>,
           error |-> "workflow_error",
           workflow_complete |-> TRUE])

\* the limit test off by one
WithinRecursionLimitOffByOne(n, cfg) == n <= cfg.recursion_limit

\* ainvoke runs another superstep only below the recursion limit
WithinRecursionLimit(n, cfg) == n < cfg.recursion_limit

\* One superstep of ainvoke: node `node` is invoked on the state (arg_after is
\* the dict it was handed, as the call left it; extracted is what the criteria
\* extraction returned to it, if it asked), its delta is
\* merged key by key, and the node's router picks the next node from the
\* merged state through the node's path map.  A node whose exception nobody
\* catches makes ainvoke raise, and so does the node's tracking wrapper, which
\* is outside the node's error handler, when the tracker raises as the
\* wrapper reports the node's completion.
NodeReturns(node, delta, raised, arg_after, extracted) ==
    /\ phase = "running"
    /\ current = node
    /\ WithinRecursionLimit(steps, config)
    /\ lastCall' = [before |-> state, after |-> arg_after, extracted |-> extracted]
    /\ steps' = steps + 1
    /\ trace' = Append(trace, node)
    /\ lastRaised' = raised
    /\ failedNodes' = IF raised THEN failedNodes \cup {node} ELSE failedNodes
    /\ \E tracker_ok \in BOOLEAN :
          /\ tracker' = IF tracker_ok THEN tracker ELSE "node_complete"
          /\ IF ~tracker_ok \/ (raised /\ node \notin ErrorHandled)
             THEN /\ lastDelta' = EmptyDict
                  /\ outcome' = "exception"
                  /\ phase' = "post"
                  /\ final_state' = ExceptionState
                  /\ UNCHANGED <<state, current>>
             ELSE LET d == error_handler(delta, raised)
                      merged == Merge(state, Restrict(d, SchemaKeys))
                      target == Router(node, merged)
                  IN  /\ lastDelta' = d
                      /\ state' = merged
                      \* a router value the node's path map does not hold is not
                      \* followed: the lookup fails and ainvoke raises
                      /\ IF target \in DeclaredEdges(node)
                         THEN /\ current' = target
                              /\ UNCHANGED <<phase, outcome, final_state>>
                         ELSE /\ outcome' = "exception"
                              /\ phase' = "post"
                              /\ final_state' = ExceptionState
                              /\ UNCHANGED current
    /\ UNCHANGED <<config, query, initial_state, inFlight, response, booking_updates, fault,
                   mergeLog, turns, shared>>

----------------------------------------------------------------------------
(* nodes/intent_analyzer.py *)

\* the intent analyze_intent settles on: the keyword heuristic's when it
\* fires (housing or bedroom words give property_search, product words
\* non_property), else the classifier's
PossibleIntents(q) ==
    IF q.hints THEN {"property_search", "non_property"} ELSE Intents

AnalyzeIntent ==
    \E raised \in BOOLEAN, intent_value \in PossibleIntents(query) :
    \E criteria \in (IF intent_value = "non_property" /\ ~raised
                     THEN ExtractedCriteria ELSE {EmptyDict}) :
        /\ NodeReturns("analyze_intent",
                       IF intent_value = "non_property"
                       THEN [intent |-> intent_value, search_filters |-> criteria,
                             properties |-> << >>]
                       ELSE [intent |-> intent_value],
                       raised, state, criteria)
        /\ UNCHANGED <<calendarCalls, smsCalls>>

----------------------------------------------------------------------------
(* nodes/property_search.py *)

\* criteria = {**prior, **extracted}: every extracted value overwrites its key
MergeCriteriaOverwriting(prior, extracted) ==
    [k \in (DOMAIN prior) \cup (DOMAIN extracted) |->
        IF k \in DOMAIN extracted THEN extracted[k] ELSE prior[k]]

\* criteria = {**prior}; every non-empty extracted value overwrites its key
MergeCriteria(prior, extracted) ==
    LET fresh == {k \in DOMAIN extracted : NonEmptyValue(extracted[k])}
    IN  [k \in (DOMAIN prior) \cup fresh |->
            IF k \in fresh THEN extracted[k] ELSE prior[k]]

\* _enforce_texas_only: <<criteria, redirect>>
enforce_texas_only(criteria) ==
    LET address == Get(criteria, "address", Null) IN
    IF ~NonEmptyValue(address) THEN <<criteria, FALSE>>
    ELSE IF address \in TexasCities THEN <<criteria, FALSE>>
    ELSE <<[criteria EXCEPT !["address"] = Null], TRUE>>

\* the closed set of kinds the response generator has a handler for
FallbackKinds == {"need_criteria", "no_properties", "no_appointments", "general_failure"}

\* a fallback context that carries the reason of the failure as its kind
FallbackKindFromReason(type) ==
    [type |-> IF type = "general_failure" THEN "non_property" ELSE type]

\* _create_fallback_context and the literal dicts of search_properties; the
\* free-form details are left out
Fallback(type) == [type |-> type]

\* a search node that counts its invocations in search_iterations
SearchUpdatesCounting(s, q, extracted, found) ==
    [properties |-> IF found THEN <<"p1">> ELSE << >>,
     search_filters |-> MergeCriteria(Get(s, "search_filters", EmptyDict), extracted),
     search_iterations |-> Get(s, "search_iterations", 0) + 1]

\* the keys search_properties updates in its copy of the state, given what
\* the extraction and the catalog search returned
SearchUpdates(s, q, extracted, found) ==
    LET prior == Get(s, "search_filters", EmptyDict)
        criteria == MergeCriteria(prior, extracted)
        non_null_extracted == {k \in DOMAIN extracted : NonEmptyValue(extracted[k])}
        texas == enforce_texas_only(criteria)
        meaningful_fields == {k \in DOMAIN texas[1] : NonEmptyValue(texas[1][k])}
    IN  IF non_null_extracted = {} /\ ~q.hints
        THEN [properties |-> << >>, search_filters |-> EmptyDict,
              fallback_context |-> Fallback("need_criteria")]
        ELSE IF q.nonProperty /\ ~(\E k \in DOMAIN criteria : NonEmptyValue(criteria[k]))
        THEN [properties |-> << >>, search_filters |-> criteria,
              fallback_context |-> Fallback("general_failure")]
        ELSE IF texas[2]
        THEN [properties |-> << >>, search_filters |-> texas[1],
              fallback_context |-> Fallback("no_properties")]
        ELSE IF meaningful_fields = {}
        THEN [properties |-> << >>, search_filters |-> texas[1],
              fallback_context |-> Fallback("need_criteria")]
        ELSE IF found
        THEN [properties |-> <<"p1">>, search_filters |-> texas[1]]
        ELSE [properties |-> << >>, search_filters |-> texas[1],
              fallback_context |-> Fallback("no_properties")]

\* what the call leaves in the dict it was handed: every branch writes its
\* updates into the argument (state.update, state["fallback_context"] = ...).
\* A call that raises does so before the first write (extraction, catalog
\* search) or, when nothing was found, between the write of the results and
\* the write of the fallback context (suggest_areas): `late` tells which.
SearchArgAfter(s, extracted, updates, raised, late) ==
    LET criteria == MergeCriteria(Get(s, "search_filters", EmptyDict), extracted)
        searched_nothing == /\ "fallback_context" \in DOMAIN updates
                            /\ updates["fallback_context"] = Fallback("no_properties")
                            /\ ~enforce_texas_only(criteria)[2]
    IN  IF ~raised THEN Merge(s, updates)
        ELSE IF late /\ searched_nothing
             THEN Merge(s, Restrict(updates, {"properties", "search_filters"}))
             ELSE s

\* the node returns the dict it was handed, updated in place, as the delta
SearchProperties ==
    \E raised \in BOOLEAN, extracted \in ExtractedCriteria, found \in BOOLEAN,
       late \in BOOLEAN :
        LET updates == SearchUpdates(state, query, extracted, found) IN
        /\ NodeReturns("search_properties", Merge(state, updates), raised,
                       SearchArgAfter(state, extracted, updates, raised, late), extracted)
        /\ UNCHANGED <<calendarCalls, smsCalls>>

----------------------------------------------------------------------------
(* nodes/reflection.py *)

\* getattr(config, name, default) on the config dict: a dict's keys are not
\* attributes, so the default is what comes back
ConfigAttr(cfg, name, default) == default

\* reflect without the loop count's increment
ReflectDeltaNoIncrement(s, cfg) ==
    LET properties == Get(s, "properties", << >>)
        fallback_context == Get(s, "fallback_context", EmptyDict)
        current_loops == Get(s, "reflection_loops", 0)
    IN  IF FallbackType(fallback_context) = "need_criteria"
        THEN [reflection_notes |-> "need_criteria", needs_more_research |-> "false",
              next_step |-> "generate_response"]
        ELSE IF Len(properties) = 0
                /\ current_loops < ConfigAttr(cfg, "max_research_loops", DefaultMaxResearchLoops)
        THEN [reflection_notes |-> "insufficient", needs_more_research |-> "true",
              next_step |-> "search_properties"]
        ELSE [reflection_notes |-> "finalize", needs_more_research |-> "false",
              next_step |-> "generate_response"]

ReflectDelta(s, cfg) ==
    LET properties == Get(s, "properties", << >>)
        fallback_context == Get(s, "fallback_context", EmptyDict)
        needs_more == Len(properties) = 0
        loops_allowed == ConfigAttr(cfg, "max_research_loops", DefaultMaxResearchLoops)
        current_loops == Get(s, "reflection_loops", 0)
    IN  IF FallbackType(fallback_context) = "need_criteria"
        THEN [reflection_notes |-> "need_criteria", needs_more_research |-> "false",
              next_step |-> "generate_response"]
        ELSE IF needs_more /\ current_loops < loops_allowed
        THEN [reflection_notes |-> "insufficient", needs_more_research |-> "true",
              reflection_loops |-> current_loops + 1, next_step |-> "search_properties"]
        ELSE [reflection_notes |-> "finalize", needs_more_research |-> "false",
              next_step |-> "generate_response"]

Reflect ==
    \E raised \in BOOLEAN :
        /\ NodeReturns("reflect", ReflectDelta(state, config), raised, state, EmptyDict)
        /\ UNCHANGED <<calendarCalls, smsCalls>>

----------------------------------------------------------------------------
(* nodes/appointment_scheduler.py *)

\* calendar_tool.get_fixed_slots_next_day: the fixed slots of the next days
FixedSlots == <<"slot_11am", "slot_12pm">>

SlotsDelta(slots) ==
    IF Len(slots) = 0
    THEN [available_slots |-> slots, fallback_context |-> Fallback("no_appointments")]
    ELSE [available_slots |-> slots]

GetAvailableSlots ==
    \E raised \in BOOLEAN :
        /\ NodeReturns("get_available_slots", SlotsDelta(FixedSlots), raised, state,
                       EmptyDict)
        /\ UNCHANGED <<calendarCalls, smsCalls>>

----------------------------------------------------------------------------
(* nodes/user_info_collector.py *)

\* the sets of fields _extract_user_info can find in the query
ExtractableInfos == {{}, {"name"}, {"name", "email", "phone"},
                     {"name", "email", "phone", "pets"}}

UserInfoValue(field) ==
    CASE field = "name" -> "Ann"
      [] field = "email" -> "a@b.co"
      [] field = "phone" -> "+15551234567"
      [] field = "pets" -> "Dogs"

CollectDelta(s, extracted_fields) ==
    LET before == Get(s, "user_info", EmptyDict)
        extracted_info == [f \in extracted_fields |-> UserInfoValue(f)]
        user_info == Merge(before, extracted_info)
        missing_fields == SelectSeq(<<"name", "email", "phone">>,
                                    LAMBDA f : ~NonEmptyValue(Get(user_info, f, Null)))
        updates == [user_info |-> user_info,
                    user_name |-> Get(user_info, "name", Null),
                    user_email |-> Get(user_info, "email", Null),
                    user_phone |-> Get(user_info, "phone", Null),
                    user_pets |-> Get(user_info, "pets", Null)]
    IN  IF Len(missing_fields) > 0
        THEN Merge(updates, [current_step |-> "info_collection",
                             requires_user_info |-> TRUE,
                             missing_fields |-> missing_fields,
                             next_step |-> "generate_response"])
        ELSE Merge(updates, [current_step |-> "booking_confirmation",
                             requires_user_info |-> FALSE,
                             next_step |-> "create_calendar_event"])

CollectUserInfo ==
    \E raised \in BOOLEAN, extracted_fields \in ExtractableInfos :
        /\ NodeReturns("collect_user_info", CollectDelta(state, extracted_fields), raised,
                       state, EmptyDict)
        /\ UNCHANGED <<calendarCalls, smsCalls>>

----------------------------------------------------------------------------
(* nodes/calendar_manager.py *)

CalendarDelta(success) ==
    IF success
    THEN [calendar_event_id |-> "evt1",
          appointment_details |-> [property_address |-> "Property Tour Location",
                                   formatted_date |-> "tomorrow", id |-> "evt1"]]
    ELSE [error |-> "Failed to create calendar event"]

\* the node raises before it reaches the calendar, or calls it once
CreateCalendarEvent ==
    \E raised \in BOOLEAN, success \in BOOLEAN :
        /\ NodeReturns("create_calendar_event", CalendarDelta(success), raised, state,
                       EmptyDict)
        /\ calendarCalls' = IF raised THEN calendarCalls ELSE calendarCalls + 1
        /\ UNCHANGED smsCalls

----------------------------------------------------------------------------
(* nodes/sms_sender.py *)

SmsSkipped(s, cfg) ==
    \/ ~(NonEmptyValue(Get(s, "user_phone", Null))
         /\ NonEmptyDict(Get(s, "appointment_details", EmptyDict)))
    \/ ConfigAttr(cfg, "enable_sms", TRUE) = FALSE

SmsDelta(s, cfg, success) ==
    IF SmsSkipped(s, cfg) THEN EmptyDict
    ELSE [sms_sent |-> IF success THEN "true" ELSE "false"]

SendSmsConfirmation ==
    \E raised \in BOOLEAN, success \in BOOLEAN :
        /\ NodeReturns("send_sms_confirmation", SmsDelta(state, config, success), raised,
                       state, EmptyDict)
        /\ smsCalls' = IF raised \/ SmsSkipped(state, config) THEN smsCalls ELSE smsCalls + 1
        /\ UNCHANGED calendarCalls

----------------------------------------------------------------------------
(* nodes/response_generator.py *)

DefaultActions == <<"Ask about properties", "Schedule a tour", "Get help">>

\* what openai_service.generate_response can return
LlmResponses == {[message |-> m, suggested_actions |-> a] :
                    m \in {"llm_text", ""},
                    a \in {<< >>, <<"a1", "a2">>, <<"a1", "a2", "a3", "a4">>}}

process_response(resp) ==
    LET actions == Get(resp, "suggested_actions", << >>) IN
    [response_message |-> Get(resp, "message", "default_help"),
     suggested_actions |-> IF Len(actions) > 0
                           THEN SubSeq(actions, 1, IF Len(actions) < 3 THEN Len(actions) ELSE 3)
                           ELSE DefaultActions]

StaticApology ==
    [response_message |-> "static_apology",
     suggested_actions |-> <<"Try rephrasing your question", "Contact support", "Ask for help">>]

\* the primary call, then _handle_response_error's retry, then the static reply
GenerateDelta(primary_ok, retry_ok, resp) ==
    LET updates == IF primary_ok THEN process_response(resp)
                   ELSE IF retry_ok THEN process_response(resp)
                   ELSE StaticApology
    IN  Merge(updates, [workflow_complete |-> TRUE])

GenerateResponse ==
    \E primary_ok \in BOOLEAN, retry_ok \in BOOLEAN, resp \in LlmResponses :
        /\ NodeReturns("generate_response", GenerateDelta(primary_ok, retry_ok, resp), FALSE,
                       state, EmptyDict)
        /\ UNCHANGED <<calendarCalls, smsCalls>>

----------------------------------------------------------------------------
(* chat_endpoint: how ainvoke ends, and what follows it *)

\* the graph reached END: ainvoke returns the accumulated state; the call of
\* skip_unused_nodes that follows is inside the same try, so a tracker that
\* raises there is handled as a failed workflow
WorkflowReturns ==
    /\ phase = "running"
    /\ current = "END"
    /\ \E tracker_ok \in BOOLEAN :
          /\ tracker' = IF tracker_ok THEN tracker ELSE "skip_unused_nodes"
          /\ final_state' = IF tracker_ok THEN state ELSE ExceptionState
          /\ outcome' = IF tracker_ok THEN "normal" ELSE "exception"
    /\ phase' = "post"
    /\ UNCHANGED <<config, query, initial_state, state, current, steps, trace, lastDelta,
                   lastRaised, failedNodes, inFlight, calendarCalls, smsCalls, response,
                   booking_updates, fault, mergeLog, lastCall, turns, shared>>

\* the tracking wrapper around every node reports the node's start before it
\* invokes the node, outside any try: a tracker that raises there makes
\* ainvoke raise without the node having run
NodeTrackingFails ==
    /\ phase = "running"
    /\ current # "END"
    /\ WithinRecursionLimit(steps, config)
    /\ tracker' = "node_start"
    /\ final_state' = ExceptionState
    /\ outcome' = "exception"
    /\ phase' = "post"
    /\ UNCHANGED <<config, query, initial_state, state, current, steps, trace, lastDelta,
                   lastRaised, failedNodes, inFlight, calendarCalls, smsCalls, response,
                   booking_updates, fault, mergeLog, lastCall, turns, shared>>

\* the graph used up recursion_limit supersteps without reaching END: ainvoke
\* raises, and chat_endpoint's `except Exception` builds the final state
GraphRecursionError ==
    /\ phase = "running"
    /\ current # "END"
    /\ ~WithinRecursionLimit(steps, config)
    /\ final_state' = ExceptionState
    /\ outcome' = "exception"
    /\ phase' = "post"
    /\ UNCHANGED <<config, query, initial_state, state, current, steps, trace, lastDelta,
                   lastRaised, failedNodes, inFlight, calendarCalls, smsCalls, response, booking_updates, fault, mergeLog, lastCall,
                   turns, shared, tracker>>

\* asyncio.wait_for gives up after WORKFLOW_TIMEOUT: the node in flight is
\* abandoned and chat_endpoint's `except asyncio.TimeoutError` builds the
\* final state from initial_state
WorkflowTimeout ==
    /\ phase = "running"
    /\ final_state' = TimeoutState
    /\ outcome' = "timeout"
    /\ inFlight' = current
    /\ phase' = "post"
    /\ UNCHANGED <<config, query, initial_state, state, current, steps, trace, lastDelta,
                   lastRaised, failedNodes, calendarCalls, smsCalls, response, booking_updates, fault, mergeLog, lastCall,
                   turns, shared, tracker>>

\* "Post booking actions": a second calendar event and an SMS for a final
\* state that is complete and carries appointment_details
PostBookingActions ==
    /\ phase = "post"
    /\ phase' = "respond"
    /\ IF Get(final_state, "workflow_complete", FALSE)
          /\ NonEmptyDict(Get(final_state, "appointment_details", EmptyDict))
       THEN \E success \in BOOLEAN, sms_ok \in BOOLEAN, tracker_ok \in BOOLEAN :
              LET appt == final_state["appointment_details"]
                  with_event == Merge(final_state,
                                      [calendar_event_id |-> IF success THEN "evt2" ELSE Null])
                  phone == Get(appt, "user_phone", Null)
              IN  /\ calendarCalls' = calendarCalls + 1
                  /\ tracker' = IF tracker_ok THEN tracker ELSE "post_booking"
                  \* the calendar call is tracked before the SMS is sent; a
                  \* tracker that raises ends the block in its `except`
                  /\ IF tracker_ok /\ NonEmptyValue(phone)
                     THEN /\ smsCalls' = smsCalls + 1
                          /\ final_state' = Merge(with_event,
                                  [sms_sent |-> IF sms_ok THEN "true" ELSE "false"])
                     ELSE /\ final_state' = with_event
                          /\ UNCHANGED smsCalls
       ELSE UNCHANGED <<final_state, calendarCalls, smsCalls, tracker>>
    /\ UNCHANGED <<config, query, initial_state, state, current, steps, trace, lastDelta,
                   lastRaised, failedNodes, outcome, inFlight, response, booking_updates,
                   fault, mergeLog, lastCall, turns, shared>>

\* the response message taken as it is, without the `or` chain's last resort
OrElseFirst(a, b) == a

\* Python's `a or b` on strings
OrElse(a, b) == IF NonEmptyValue(a) THEN a ELSE b

\* Python's `a or b` on lists
OrElseSeq(a, b) == IF Len(a) > 0 THEN a ELSE b

\* the ChatResponse: each field from final_state, else from the booking
\* handler's result, else a default
BuildResponse(fs, bu) ==
    [response |-> OrElse(OrElse(Get(fs, "response_message", Null),
                                Get(bu, "response_message", Null)),
                         "I'm here to help!"),
     intent |-> Get(fs, "intent", Null),
     suggested_actions |-> OrElseSeq(Get(fs, "suggested_actions", << >>),
                                     Get(bu, "suggested_actions", << >>)),
     properties |-> Get(fs, "properties", << >>),
     available_slots |-> OrElseSeq(Get(fs, "available_slots", << >>),
                                   Get(bu, "available_slots", << >>)),
     current_step |-> OrElse(OrElse(Get(fs, "current_step", Null),
                                    Get(bu, "current_step", Null)),
                             "property_search"),
     appointment_details |-> Get(fs, "appointment_details", EmptyDict),
     next_field |-> OrElse(Get(fs, "next_field", Null), Get(bu, "next_field", Null)),
     missing_fields |-> OrElseSeq(Get(fs, "missing_fields", << >>),
                                  Get(bu, "missing_fields", << >>))]

\* the end of chat_endpoint: the response is built, complete_execution is
\* called, a main-graph turn appends the exchange to the chat history (a
\* tracker or a store that raises ends the turn in HTTPException 500), the
\* filters are persisted (a failure there is swallowed), and the ChatResponse
\* is returned
Respond ==
    /\ phase = "respond"
    /\ \E tracker_ok \in BOOLEAN,
          append_ok \in (IF initial_state["action_type"] \in BookingActions
                         THEN {TRUE} ELSE BOOLEAN) :
          /\ tracker' = IF tracker_ok THEN tracker ELSE "complete_execution"
          /\ IF tracker_ok /\ append_ok
             THEN /\ response' = BuildResponse(final_state, booking_updates)
                  /\ phase' = "responded"
                  /\ UNCHANGED fault
             ELSE /\ phase' = "faulted"
                  /\ fault' = "http_500"
                  /\ UNCHANGED response
    /\ UNCHANGED <<config, query, initial_state, state, current, steps, trace, lastDelta,
                   lastRaised, failedNodes, outcome, inFlight, final_state, calendarCalls,
                   smsCalls, booking_updates, mergeLog, lastCall,
                   turns, shared>>

----------------------------------------------------------------------------

\* the steps of a turn that is not timed out
Progress ==
    \/ LoadContext
    \/ BookingFlow
    \/ AnalyzeIntent
    \/ SearchProperties
    \/ Reflect
    \/ GetAvailableSlots
    \/ CollectUserInfo
    \/ CreateCalendarEvent
    \/ SendSmsConfirmation
    \/ GenerateResponse
    \/ WorkflowReturns
    \/ GraphRecursionError
    \/ NodeTrackingFails
    \/ PostBookingActions
    \/ Respond

Next == Progress \/ WorkflowTimeout

Spec == Init /\ [][Next]_vars

----------------------------------------------------------------------------
(* The merge of deltas into a state, on its own: initial_state.update(...) in *)
(* chat_endpoint, and the graph's channels, which WorkflowState declares      *)
(* without a reducer.                                                         *)

MergeInit ==
    /\ config = EndpointConfig
    /\ query = [hints |-> FALSE, nonProperty |-> FALSE]
    /\ initial_state = EmptyDict
    /\ state = EmptyDict
    /\ current = "END"
    /\ steps = 0
    /\ trace = << >>
    /\ lastDelta = EmptyDict
    /\ lastRaised = FALSE
    /\ failedNodes = {}
    /\ phase = "merge"
    /\ outcome = "none"
    /\ inFlight = "none"
    /\ final_state = EmptyDict
    /\ calendarCalls = 0
    /\ smsCalls = 0
    /\ response = EmptyDict
    /\ booking_updates = EmptyDict
    /\ fault = "none"
    /\ lastCall = NoCall
    /\ turns = NoTurns
    /\ shared = NoShared
    /\ tracker = "ok"
    /\ \E s \in MergeDicts : mergeLog = [base |-> s, deltas |-> << >>, result |-> s]

\* one more delta is merged into the state
ApplyDelta ==
    /\ phase = "merge"
    /\ Len(mergeLog.deltas) < MaxDeltas
    /\ \E d \in MergeDicts :
          mergeLog' = [base |-> mergeLog.base,
                       deltas |-> Append(mergeLog.deltas, d),
                       result |-> Merge(mergeLog.result, d)]
    /\ UNCHANGED <<config, query, initial_state, state, current, steps, trace, lastDelta,
                   lastRaised, failedNodes, phase, outcome, inFlight, final_state,
                   calendarCalls, smsCalls, response, booking_updates, fault, lastCall,
                   turns, shared, tracker>>

MergeSpec == MergeInit /\ [][ApplyDelta]_vars

----------------------------------------------------------------------------
(* Concurrent turns of one user: requests to chat_endpoint whose coroutines  *)
(* interleave where one of them yields to the event loop (ainvoke runs each  *)
(* node as a task of its own, so the turns interleave between node           *)
(* invocations). They share the session store and the module-level           *)
(* workflow_visualizer; the graph's state is each turn's own.                *)

mainVars == <<config, query, initial_state, state, current, steps, trace, lastDelta,
              lastRaised, failedNodes, phase, outcome, inFlight, final_state,
              calendarCalls, smsCalls, response, booking_updates, fault, mergeLog,
              lastCall, tracker>>

\* the turns, named by their user_query
TurnQueries == {"q1", "q2"}

\* the search_filters a turn's final state can hold when search_properties
\* ran on the filters the turn read
TurnFilters(prior) ==
    {SearchUpdates([search_filters |-> prior], q, e, f)["search_filters"] :
        q \in [hints : BOOLEAN, nonProperty : BOOLEAN], e \in ExtractedCriteria,
        f \in BOOLEAN}

\* SearchSessionService.get_filters: what the store holds under the user's key
get_filters(store) == store

\* a store that folds the written filters into those it holds
set_filters_merging(store, filters) == MergeCriteria(store, filters)

\* SearchSessionService.set_filters: the key's value is replaced
set_filters(store, filters) == filters

NewExecution(user_query) == [user_query |-> user_query, status |-> "running", nodes |-> << >>]

\* WorkflowVisualizer.track_node_execution: the node's entry of the current
\* execution gets the status, or a new entry is appended with the caller's
\* input data (here the user_query it carries)
track_node_execution(viz, node_id, status, user_query) ==
    IF viz.current_execution = 0 THEN viz
    ELSE LET id == viz.current_execution
             nodes == viz.executions[id].nodes
             existing == {i \in 1..Len(nodes) : nodes[i].node_id = node_id}
         IN  [viz EXCEPT !.executions[id].nodes =
                IF existing # {}
                THEN [i \in 1..Len(nodes) |->
                        IF i \in existing THEN [nodes[i] EXCEPT !.status = status]
                        ELSE nodes[i]]
                ELSE Append(nodes, [node_id |-> node_id, status |-> status,
                                    user_query |-> user_query])]

\* WorkflowVisualizer.start_execution: a new execution under the id made of
\* the clock's milliseconds becomes the current one
start_execution(viz, user_query, id) ==
    track_node_execution(
        [viz EXCEPT !.executions = Merge(viz.executions, id :> NewExecution(user_query)),
                    !.current_execution = id],
        "analyze_intent", "running", user_query)

\* WorkflowVisualizer.complete_execution: the current execution is completed;
\* its call to track_node_execution carries no input data
complete_execution(viz) ==
    IF viz.current_execution = 0 THEN viz
    ELSE track_node_execution(
            [viz EXCEPT !.executions[viz.current_execution].status = "completed"],
            "generate_response", "completed", Null)

IdleTurn ==
    [pc |-> "start", prior |-> EmptyDict, filters |-> EmptyDict, execution_id |-> 0,
     reads |-> 0, writes |-> 0]

TurnsInit ==
    /\ config = EndpointConfig
    /\ query = [hints |-> FALSE, nonProperty |-> FALSE]
    /\ initial_state = EmptyDict
    /\ state = EmptyDict
    /\ current = "END"
    /\ steps = 0
    /\ trace = << >>
    /\ lastDelta = EmptyDict
    /\ lastRaised = FALSE
    /\ failedNodes = {}
    /\ phase = "turns"
    /\ outcome = "none"
    /\ inFlight = "none"
    /\ final_state = EmptyDict
    /\ calendarCalls = 0
    /\ smsCalls = 0
    /\ response = EmptyDict
    /\ booking_updates = EmptyDict
    /\ fault = "none"
    /\ mergeLog = NoMerge
    /\ lastCall = NoCall
    /\ tracker = "ok"
    /\ turns = [q \in TurnQueries |-> IdleTurn]
    /\ \E stored \in PriorFilters :
          shared = [store |-> stored, initial |-> stored, written |-> << >>,
                    executions |-> << >>, current_execution |-> 0, clock |-> 1]

\* chat_endpoint up to ainvoke: start_execution, then the chat history and
\* the session filters are read (a store that raises ends the turn)
TurnStart(q) ==
    /\ turns[q].pc = "start"
    /\ \E tick \in {0, 1}, history_ok \in BOOLEAN, filters_ok \in BOOLEAN :
          LET id == shared.clock + tick IN
          /\ shared' = [start_execution(shared, q, id) EXCEPT !.clock = id]
          /\ turns' = [turns EXCEPT ![q] =
                IF history_ok /\ filters_ok
                THEN [@ EXCEPT !.pc = "analyze_intent",
                               !.prior = get_filters(shared.store),
                               !.filters = get_filters(shared.store),
                               !.execution_id = id,
                               !.reads = @ + 1]
                ELSE [@ EXCEPT !.pc = "faulted",
                               !.execution_id = id,
                               !.reads = IF history_ok THEN @ + 1 ELSE @]]
    /\ UNCHANGED mainVars

\* one node of the turn's graph run, under the tracking wrapper: the node is
\* tracked as running and as completed; search_properties leaves the turn's
\* new filters in its state
TurnNode(q) ==
    /\ turns[q].pc \in {"analyze_intent", "search_properties", "generate_response"}
    /\ LET node == turns[q].pc IN
       /\ shared' = track_node_execution(
                        track_node_execution(shared, node, "running", q),
                        node, "completed", q)
       /\ \/ /\ node = "analyze_intent"
             /\ \E next \in {"search_properties", "generate_response"} :
                   turns' = [turns EXCEPT ![q].pc = next]
          \/ /\ node = "search_properties"
             /\ \E filters \in TurnFilters(turns[q].filters) :
                   turns' = [turns EXCEPT ![q].pc = "generate_response",
                                          ![q].filters = filters]
          \/ /\ node = "generate_response"
             /\ turns' = [turns EXCEPT ![q].pc = "end"]
    /\ UNCHANGED mainVars

\* the end of chat_endpoint: complete_execution, then the final state's
\* filters are written to the store (a failure of the store is swallowed)
TurnEnd(q) ==
    /\ turns[q].pc = "end"
    /\ \E write_ok \in BOOLEAN :
          LET viz == complete_execution(shared) IN
          /\ shared' = IF write_ok
                       THEN [viz EXCEPT
                               !.store = set_filters(viz.store, turns[q].filters),
                               !.written = Append(@, [by |-> q,
                                                      filters |-> turns[q].filters])]
                       ELSE viz
          /\ turns' = [turns EXCEPT ![q].pc = "done",
                                    ![q].writes = IF write_ok THEN @ + 1 ELSE @]
    /\ UNCHANGED mainVars

TurnsNext == \E q \in TurnQueries : TurnStart(q) \/ TurnNode(q) \/ TurnEnd(q)

TurnsSpec == TurnsInit /\ [][TurnsNext]_vars

----------------------------------------------------------------------------
(* route_after_search on its own: the router applied to the states a search  *)
(* can leave, the ones with a search count and a limit of their own included *)

FallbackOptions == {EmptyDict} \cup {[fallback_context |-> Fallback(k)] : k \in FallbackKinds}

CountOptions == {EmptyDict} \cup {[search_iterations |-> n] : n \in 0..MaxSearchCount}

LimitOptions == {EmptyDict} \cup {[max_search_iterations |-> n] : n \in 1..MaxSearchCount}

PropertiesOptions == {EmptyDict, [properties |-> << >>], [properties |-> <<"p1">>]}

SearchStates ==
    {Merge(Merge(f, c), Merge(l, p)) :
        f \in FallbackOptions, c \in CountOptions, l \in LimitOptions,
        p \in PropertiesOptions}

RouteInit ==
    /\ config = EndpointConfig
    /\ query = [hints |-> FALSE, nonProperty |-> FALSE]
    /\ initial_state = EmptyDict
    /\ state \in SearchStates
    /\ current = "search_properties"
    /\ steps = 0
    /\ trace = << >>
    /\ lastDelta = EmptyDict
    /\ lastRaised = FALSE
    /\ failedNodes = {}
    /\ phase = "route"
    /\ outcome = "none"
    /\ inFlight = "none"
    /\ final_state = EmptyDict
    /\ calendarCalls = 0
    /\ smsCalls = 0
    /\ response = EmptyDict
    /\ booking_updates = EmptyDict
    /\ fault = "none"
    /\ mergeLog = NoMerge
    /\ lastCall = NoCall
    /\ turns = NoTurns
    /\ shared = NoShared
    /\ tracker = "ok"

\* the conditional edge after search_properties: the router picks the next
\* node from the state
ApplyRoute ==
    /\ phase = "route"
    /\ current = "search_properties"
    /\ current' = route_after_search(state)
    /\ trace' = <<"search_properties">>
    /\ UNCHANGED <<config, query, initial_state, state, steps, lastDelta, lastRaised,
                   failedNodes, phase, outcome, inFlight, final_state, calendarCalls,
                   smsCalls, response, booking_updates, fault, mergeLog, lastCall,
                   turns, shared, tracker>>

RouteSpec == RouteInit /\ [][ApplyRoute]_vars

----------------------------------------------------------------------------
(* Properties of a run *)

GenerateCount == Count(trace, "generate_response")

LastNode == IF Len(trace) = 0 THEN "none" ELSE trace[Len(trace)]

\* none of the turn's tracking calls raised
TrackerSound == tracker = "ok"

\* ainvoke has ended (a turn of the main graph)
AfterWorkflow ==
    /\ phase \in {"post", "respond", "responded", "faulted"}
    /\ outcome \in {"normal", "timeout", "exception"}

\* the run was cut off, by the timeout or by the recursion limit, before
\* generate_response ran
CutOffBeforeResponse ==
    /\ AfterWorkflow
    /\ outcome \in {"timeout", "exception"}
    /\ current # "END"

ErrorDelta == [error |-> "node_failure"]

\* C1: every run of the graph from analyze_intent ends at END through
\* generate_response, whatever the intent and whatever each node returns:
\* whenever the graph is at END, generate_response has run exactly once and
\* was the last node; ainvoke returns normally only from END; a running graph
\* is always at a node or at END; and under the recursion limit chat_endpoint
\* passes, no run uses up its steps (no cycle between search_properties and
\* reflect goes on), the tracking calls around the graph not raising.
C1_EveryRunEndsInGenerateResponse ==
    /\ current = "END" => (GenerateCount = 1 /\ LastNode = "generate_response")
    /\ (outcome = "normal" /\ TrackerSound) => current = "END"
    /\ phase = "running" => current \in NodeNames \cup {"END"}
    /\ (config.recursion_limit = RecursionLimit /\ TrackerSound) => outcome # "exception"

C1_Witness ==
    /\ outcome = "normal"
    /\ config.recursion_limit = RecursionLimit
    /\ trace = <<"analyze_intent", "search_properties", "reflect", "generate_response">>
    /\ failedNodes = {"search_properties"}

\* C2: once ainvoke has ended, normally, by timeout or by exception, the final
\* state of a main-graph turn has workflow_complete = true, and the response
\* message returned to the caller is non-empty.
C2_CompleteAndNonEmptyMessage ==
    /\ AfterWorkflow => final_state["workflow_complete"] = TRUE
    /\ phase = "responded" => NonEmptyValue(response["response"])

C2_Witness ==
    /\ phase = "responded"
    /\ outcome = "normal"
    /\ final_state["response_message"] = ""
    /\ response["response"] = "I'm here to help!"

\* C3 (as claimed): reflection_loops never exceeds the configured
\* max_research_loops, whatever value is configured, 0 included.
C3_LoopsWithinConfiguredCeiling ==
    Get(state, "reflection_loops", 0) <= config.max_research_loops

\* C4: a run whose search never finds a property invokes search_properties at
\* most max_research_loops + 1 times.
C4_SearchAttemptsBounded ==
    Len(Get(state, "properties", << >>)) = 0
        => Count(trace, "search_properties") <= config.max_research_loops + 1

C4_Witness ==
    /\ config.max_research_loops = 0
    /\ trace = <<"analyze_intent", "search_properties", "reflect", "generate_response">>
    /\ FallbackType(Get(state, "fallback_context", EmptyDict)) = "no_properties"
    /\ failedNodes = {}

\* C5 (as claimed): with the default ceiling 1, when the first search returns
\* zero results (reflection_loops = 0 < 1), the router after reflect sends the
\* run back to search_properties.
C5_FirstEmptySearchLoopsBack ==
    ( /\ config.max_research_loops = DefaultMaxResearchLoops
      /\ phase = "running"
      /\ trace = <<"analyze_intent", "search_properties", "reflect">>
      /\ failedNodes = {}
      /\ Len(Get(state, "properties", << >>)) = 0
      /\ FallbackType(Get(state, "fallback_context", EmptyDict)) = "no_properties" )
        => current = "search_properties"

C9_NodeFailureBecomesErrorDelta ==
    TrackerSound =>
        /\ lastRaised => /\ lastDelta = ErrorDelta
                         /\ LastNode \in NodeNames \ {"generate_response"}
                         /\ Get(state, "error", Null) = "node_failure"
        /\ (failedNodes # {} /\ phase = "running") => current \in NodeNames \cup {"END"}
        /\ (failedNodes # {} /\ outcome = "normal") => GenerateCount = 1
        /\ (failedNodes # {} /\ config.recursion_limit = RecursionLimit) => outcome # "exception"

C9_Witness ==
    /\ failedNodes = {"get_available_slots", "collect_user_info"}
    /\ outcome = "normal"
    /\ GenerateCount = 1

C11_ResponseDeltaAlwaysFilled ==
    (LastNode = "generate_response" /\ current = "END") =>
        /\ ~lastRaised
        /\ NonEmptyValue(Get(lastDelta, "response_message", Null))
        /\ Len(Get(lastDelta, "suggested_actions", << >>)) > 0
        /\ Get(lastDelta, "workflow_complete", FALSE) = TRUE

\* C12 (as claimed): every turn that returns a response, whichever path it
\* took (main graph, node failure, timeout, workflow exception, any booking
\* action and reply), returns a non-empty list of suggested actions.
C12_EveryTurnSuggestsActions ==
    phase = "responded" => Len(response["suggested_actions"]) > 0

\* C13 (as claimed): no turn returns a fault to the caller: whichever
\* collaborator fails, before the graph starts or after it ends, the turn
\* still returns a response (chat_endpoint never raises HTTPException).
C13_NoFaultReachesCaller ==
    /\ fault = "none"
    /\ phase # "faulted"

\* C14: after every node invocation the node the run moves to is the value
\* of that node's router on the merged state, and it is a member of the edge
\* set declared for that node; a value outside the set is never followed
\* (an invocation whose completion the tracker failed to record ends the run
\* and moves nowhere).
C14_NextNodeInDeclaredEdges ==
    (Len(trace) > 0 /\ TrackerSound) =>
        /\ current \in DeclaredEdges(LastNode)
        /\ current = Router(LastNode, state)

\* reflect failed, so next_step is still null: its router falls back to
\* generate_response instead of following the null
C14_Witness ==
    /\ LastNode = "reflect"
    /\ lastRaised
    /\ Get(state, "next_step", Null) = Null
    /\ Get(state, "reflection_loops", 0) = 0
    /\ current = "generate_response"

\* C15: after analyze_intent the next node is search_properties iff intent =
\* property_search, get_available_slots iff intent = schedule_tour,
\* create_calendar_event iff intent = confirm_booking, and generate_response
\* for every other intent (null, unknown strings, non_property), when
\* analyze_intent's invocation returned to the graph.
C15_IntentKeyedRouting ==
    (trace = <<"analyze_intent">> /\ TrackerSound) =>
        LET intent == Get(state, "intent", Null) IN
        /\ current = "search_properties" <=> intent = "property_search"
        /\ current = "get_available_slots" <=> intent = "schedule_tour"
        /\ current = "create_calendar_event" <=> intent = "confirm_booking"
        /\ current = "generate_response" <=>
              intent \notin {"property_search", "schedule_tour", "confirm_booking"}

\* an intent outside the classifier's list goes straight to generate_response
C15_Witness ==
    /\ trace = <<"analyze_intent">>
    /\ ~lastRaised
    /\ Get(state, "intent", Null) = "something_else"
    /\ current = "generate_response"

\* the run took the scheduling branch out of analyze_intent
OnSchedulingBranch == Len(trace) >= 2 /\ trace[2] = "get_available_slots"

SchedulingOrder == <<"analyze_intent", "get_available_slots", "collect_user_info",
                     "create_calendar_event", "send_sms_confirmation">>

IsPrefix(p, q) == Len(p) <= Len(q) /\ p = SubSeq(q, 1, Len(p))

AllUserFieldsSet(s) ==
    \A field \in {"user_name", "user_email", "user_phone", "user_pets"} :
        NonEmptyValue(Get(s, field, Null))

Setters(k) == {i \in 1..Len(mergeLog.deltas) : k \in DOMAIN mergeLog.deltas[i]}

Last(S) == CHOOSE i \in S : \A j \in S : j <= i

\* C17: after deltas are applied in sequence to a state, every key holds the
\* value of the last delta that contains it, an explicit null or an empty
\* list included; a key no delta contains keeps the state's value; no other
\* key appears; a list is replaced, never appended to.
C17_LastDeltaWins ==
    /\ DOMAIN mergeLog.result =
          (DOMAIN mergeLog.base) \cup UNION {DOMAIN mergeLog.deltas[i] :
                                               i \in 1..Len(mergeLog.deltas)}
    /\ \A k \in DOMAIN mergeLog.result :
          IF Setters(k) # {}
          THEN mergeLog.result[k] = mergeLog.deltas[Last(Setters(k))][k]
          ELSE mergeLog.result[k] = mergeLog.base[k]

\* a list is first set, then replaced by the empty list; an error is set and
\* then reset to null
C17_Witness ==
    /\ Len(mergeLog.deltas) = 2
    /\ mergeLog.base = [properties |-> <<"p1">>, error |-> "e1"]
    /\ mergeLog.deltas[1] = [properties |-> <<"p1", "p2">>]
    /\ mergeLog.deltas[2] = [properties |-> << >>, error |-> Null]
    /\ mergeLog.result = [properties |-> << >>, error |-> Null]

----------------------------------------------------------------------------
\* C18: no node mutates the state object it receives: after every node
\* invocation the state argument, nested values included, is equal to what it
\* was before the call; what the node changes is only in the delta it returns.
C18_NodesLeaveArgumentUnchanged == lastCall.after = lastCall.before

----------------------------------------------------------------------------
HasFallback(d) ==
    /\ "fallback_context" \in DOMAIN d
    /\ d["fallback_context"] # EmptyDict

KindInClosedSet(d) ==
    HasFallback(d) => FallbackType(d["fallback_context"]) \in FallbackKinds

\* C19: in every reachable state a non-null fallback_context has a kind from
\* the closed set of four (need_criteria, no_properties, no_appointments,
\* general_failure): in the run's state, in the last delta a node returned, in
\* the dict the last node was handed, and in the state the turn ends with.
C19_FallbackKindInClosedSet ==
    /\ KindInClosedSet(state)
    /\ KindInClosedSet(lastDelta)
    /\ KindInClosedSet(lastCall.after)
    /\ KindInClosedSet(final_state)

\* search_properties screened a non-property query out and attached the
\* generic-failure kind, and the turn was answered with it in the final state
C19_Witness ==
    /\ phase = "responded"
    /\ outcome = "normal"
    /\ "search_properties" \in {trace[i] : i \in 1..Len(trace)}
    /\ HasFallback(final_state)
    /\ FallbackType(final_state["fallback_context"]) = "general_failure"

----------------------------------------------------------------------------
\* intents outside the classifier's categories: the request was not classified
UnclassifiedIntents == Intents \ {"property_search", "schedule_tour", "confirm_booking",
                                  "non_property", "greeting", "ask_question"}

Invoked(node) == \E i \in 1..Len(trace) : trace[i] = node

NoError(s) == Get(s, "error", Null) = Null

\* search_properties ran, nothing raised, and the state holds no candidates
\* (nothing found, or too few criteria to search with)
SearchEndedEmpty(s) ==
    /\ Invoked("search_properties")
    /\ NoError(s)
    /\ Get(s, "properties", << >>) = << >>

\* get_available_slots ran, nothing raised, and the state holds no slots
SlotsEndedEmpty(s) ==
    /\ Invoked("get_available_slots")
    /\ NoError(s)
    /\ Get(s, "available_slots", << >>) = << >>

\* analyze_intent returned an intent outside the classifier's categories and
\* the router sent the request straight to generate_response
IntentUnclassified(s) ==
    /\ trace = <<"analyze_intent">>
    /\ NoError(s)
    /\ Get(s, "intent", Null) \in UnclassifiedIntents

ReachesGenerateResponse == phase = "running" /\ current = "generate_response"

\* the two node kinds that do attach one: search_properties and
\* get_available_slots
SearchAndSlotsCarryFallback ==
    (ReachesGenerateResponse /\ (SearchEndedEmpty(state) \/ SlotsEndedEmpty(state)))
        => HasFallback(state)

\* C20: whenever a node ends without its primary artifact (search_properties
\* with no candidates or with insufficient criteria, get_available_slots with
\* no slots, analyze_intent with an unclassifiable request), the state that
\* reaches generate_response carries a non-null fallback_context.
C20_NoArtifactCarriesFallback ==
    (ReachesGenerateResponse
        /\ (SearchEndedEmpty(state) \/ SlotsEndedEmpty(state) \/ IntentUnclassified(state)))
        => HasFallback(state)

----------------------------------------------------------------------------
\* the booking handler has run for this turn's action
BookingHandled(action) ==
    /\ outcome = "booking"
    /\ initial_state["action_type"] = action

SuppliedInfo == initial_state["user_info"]

AllSuppliedValid ==
    \A f \in DOMAIN SuppliedInfo : SuppliedInfo[f] = ValidValue(f)

\* position of a field in the fixed order name, email, phone, pets
OrderIndex(field) ==
    CHOOSE i \in 1..Len(required_fields_order) : required_fields_order[i] = field

Unsupplied == UserInfoFields \ DOMAIN SuppliedInfo

\* the field of the fixed order that comes first among those without a value
FirstUnsupplied ==
    IF Unsupplied = {} THEN Null
    ELSE CHOOSE f \in Unsupplied : \A g \in Unsupplied : OrderIndex(f) <= OrderIndex(g)

\* C21: in the booking sub-flow, for every subset of valid fields supplied in
\* user_info under action provide_info, the field prompted for next
\* (next_field, in the final state and in the response) is the first field
\* of the fixed order name, email, phone, pets that has no value; no field is
\* prompted for when all four are there.
C21_PromptsFirstMissingField ==
    (BookingHandled("provide_info") /\ AllSuppliedValid)
        => /\ final_state["next_field"] = FirstUnsupplied
           /\ phase = "responded" => response["next_field"] = FirstUnsupplied

\* phone and pets were supplied before name and email: name is asked for
C21_Witness ==
    /\ BookingHandled("provide_info")
    /\ phase = "responded"
    /\ SuppliedInfo = [phone |-> "5551234567", pets |-> "Dogs"]
    /\ response["next_field"] = "name"

----------------------------------------------------------------------------
\* the supplied fields whose value is not one the field's rule accepts
FailingFields == {f \in DOMAIN SuppliedInfo : SuppliedInfo[f] # ValidValue(f)}

FirstFailing ==
    CHOOSE f \in FailingFields : \A g \in FailingFields : OrderIndex(f) <= OrderIndex(g)

\* C22: in the booking sub-flow, when a field supplied under action
\* provide_info fails its validation rule, the reply re-prompts for that
\* field (the first failing one in the fixed order): next_field is the
\* failing field, current_step is info_collection and validation_error is
\* set; no later field is asked for and the booking is not finalized.
C22_InvalidFieldIsAskedAgain ==
    (BookingHandled("provide_info") /\ FailingFields # {})
        => /\ final_state["next_field"] = FirstFailing
           /\ final_state["info_prompt"] = prompt_for_field(FirstFailing)
           /\ final_state["current_step"] = "info_collection"
           /\ "validation_error" \in DOMAIN booking_updates
           /\ booking_updates["validation_error"] = TRUE
           /\ final_state["workflow_complete"] = FALSE
           /\ final_state["appointment_details"] = EmptyDict
           /\ phase = "responded" =>
                 /\ response["next_field"] = FirstFailing
                 /\ response["current_step"] = "info_collection"
                 /\ response["appointment_details"] = EmptyDict

\* name is there and the email is malformed: email is asked for again, phone
\* is not
C22_Witness ==
    /\ BookingHandled("provide_info")
    /\ phase = "responded"
    /\ SuppliedInfo = [name |-> "Ann", email |-> "bad"]
    /\ response["next_field"] = "email"
    /\ booking_updates["validation_error"] = TRUE

----------------------------------------------------------------------------
AllFourSuppliedValid ==
    /\ DOMAIN SuppliedInfo = UserInfoFields
    /\ AllSuppliedValid

\* the booking record of the turn: its property, its slot, the four fields
TurnBookingRecord ==
    [property_id |-> initial_state["property_id"],
     slot |-> initial_state["selected_slot"],
     user_name |-> SuppliedInfo["name"],
     user_email |-> SuppliedInfo["email"],
     user_phone |-> SuppliedInfo["phone"],
     user_pets |-> SuppliedInfo["pets"]]

\* C23: in the booking sub-flow, when name, email and phone are present and
\* action provide_info supplies a valid pets value, the sub-flow finalizes:
\* current_step is booking_complete, workflow_complete is true, and
\* appointment_details carries the turn's property_id, selected_slot and the
\* four collected fields, in the final state and in the response.
C23_CompleteInfoFinalizesBooking ==
    (BookingHandled("provide_info") /\ AllFourSuppliedValid)
        => /\ final_state["current_step"] = "booking_complete"
           /\ final_state["workflow_complete"] = TRUE
           /\ final_state["appointment_details"] = TurnBookingRecord
           /\ phase = "responded" =>
                 /\ response["current_step"] = "booking_complete"
                 /\ response["appointment_details"] = TurnBookingRecord

\* the last field, pets, arrives for property p1 and a selected slot: the
\* booking is finalized, the calendar event is created and the reply sent
C23_Witness ==
    /\ BookingHandled("provide_info")
    /\ phase = "responded"
    /\ AllFourSuppliedValid
    /\ initial_state["property_id"] = "p1"
    /\ initial_state["selected_slot"] = "2026-01-02 09:00:00"
    /\ response["appointment_details"] = TurnBookingRecord
    /\ calendarCalls = 1

----------------------------------------------------------------------------
BookingTurn == initial_state["action_type"] \in BookingActions

\* C24: for a turn whose action_type is inquire, book_schedule, select_slot,
\* provide_info or cancel_booking no main-graph node is ever invoked (the
\* graph is not entered, nothing is in the trace, the graph's state is as it
\* was built); only the booking handler runs, and what it returned is in the
\* final state and in the outward response.
C24_BookingTurnBypassesGraph ==
    BookingTurn
        => /\ phase # "running"
           /\ trace = << >>
           /\ steps = 0
           /\ lastCall = NoCall
           /\ outcome \in {"none", "booking"}
           /\ outcome = "booking" =>
                 \A k \in DOMAIN booking_updates : final_state[k] = booking_updates[k]
           /\ phase = "responded" =>
                 /\ outcome = "booking"
                 /\ response["response"] = booking_updates["response_message"]
                 /\ response["current_step"] = booking_updates["current_step"]
                 /\ response["intent"] = Null

\* book_schedule for property p1: the reply carries the handler's slots and
\* no node has run
C24_Witness ==
    /\ phase = "responded"
    /\ initial_state["action_type"] = "book_schedule"
    /\ initial_state["property_id"] = "p1"
    /\ response["available_slots"] = GeneratedSlots
    /\ response["current_step"] = "slot_selection"
    /\ trace = << >>

----------------------------------------------------------------------------
SmsDisabled == Get(config, "enable_sms", TRUE) = FALSE

\* C25: when the run configuration sets enable_sms to false,
\* send_sms_confirmation returns an empty delta and makes no call to the SMS
\* provider, in every state, also when user_phone and appointment_details
\* are present (while the graph runs, smsCalls counts the node's calls only).
C25_DisabledSmsSendsNothing ==
    (SmsDisabled /\ phase = "running")
        => /\ smsCalls = 0
           /\ (Len(trace) > 0 /\ LastNode = "send_sms_confirmation" /\ ~lastRaised)
                 => lastDelta = EmptyDict

----------------------------------------------------------------------------
\* the filters the store holds by last-write-wins: the last written value,
\* or the initial one when no turn has written
LastWritten ==
    IF Len(shared.written) = 0 THEN shared.initial
    ELSE shared.written[Len(shared.written)].filters

\* C26: each turn reads the user's persisted filters exactly once, at its
\* start (a turn past its start has read once and holds what the store held
\* then; a turn whose start was cut short by a failing store has read at most
\* once), and writes them at most once, at its end; when turns of the same
\* user overlap, the persisted filters are exactly those written by the turn
\* whose write came last, whatever the other turn wrote.
C26_ReadOnceWriteOnceLastWins ==
    /\ \A q \in TurnQueries :
          /\ turns[q].reads <= 1
          /\ turns[q].pc \notin {"start", "faulted"} => turns[q].reads = 1
          /\ turns[q].writes <= 1
          /\ turns[q].writes = 1 => turns[q].pc = "done"
          /\ turns[q].writes = Cardinality({i \in 1..Len(shared.written) :
                                              shared.written[i].by = q})
    /\ shared.store = LastWritten

\* both turns read the empty store before either wrote; q1 wrote its city,
\* then q2 wrote its bedroom count: the store holds q2's filters and q1's
\* city is lost
C26_Witness ==
    /\ turns["q1"].pc = "done" /\ turns["q2"].pc = "done"
    /\ turns["q1"].prior = EmptyDict /\ turns["q2"].prior = EmptyDict
    /\ Len(shared.written) = 2
    /\ shared.written[1] = [by |-> "q1", filters |-> [address |-> "austin"]]
    /\ shared.written[2] = [by |-> "q2", filters |-> [bedrooms |-> "2"]]
    /\ shared.store = [bedrooms |-> "2"]

----------------------------------------------------------------------------
Started(q) == turns[q].execution_id # 0

\* C27: concurrent turns share no mutable state but the persisted filters:
\* in every interleaving the execution tracked under a turn's execution id
\* is that turn's own (its user_query), every node entry in it was recorded
\* by that turn, and it is completed only when that turn has ended.
C27_TrackedExecutionIsTheTurnsOwn ==
    \A q \in TurnQueries :
        Started(q) =>
            LET execution == shared.executions[turns[q].execution_id] IN
            /\ execution.user_query = q
            /\ \A i \in 1..Len(execution.nodes) : execution.nodes[i].user_query = q
            /\ execution.status = "completed" => turns[q].pc = "done"

----------------------------------------------------------------------------
\* the workflow_visualizer raised in one of this turn's tracking calls
TrackerFailed == tracker # "ok"

\* the turn was aborted: the request ended in HTTPException 500, or the
\* graph's run was replaced by the failure state
RunAborted == fault # "none" \/ outcome = "exception"

\* C28: a failure of the telemetry tracker during a tracking call (run start,
\* node start, node complete, node error, run complete) never aborts the run
\* and never changes the turn's final state or response
C28_TrackerFailureIsHarmless == TrackerFailed => ~RunAborted

----------------------------------------------------------------------------
\* search_properties has just returned without raising
SearchReturned ==
    /\ Len(trace) > 0
    /\ LastNode = "search_properties"
    /\ ~lastRaised

PriorOfCall == Get(lastCall.before, "search_filters", EmptyDict)

FiltersOfCall == Get(lastDelta, "search_filters", EmptyDict)

ExtractedNonEmpty(k) ==
    k \in DOMAIN lastCall.extracted /\ NonEmptyValue(lastCall.extracted[k])

PriorNonEmpty(k) == k \in DOMAIN PriorOfCall /\ NonEmptyValue(PriorOfCall[k])

\* the turn extracted nothing and its query has no property word: the node
\* asks for criteria and empties the filters
FiltersReset == (\A k \in FilterKeys : ~ExtractedNonEmpty(k)) /\ ~query.hints

\* the value of key k after the carry-over
CarriedOver(k) == IF ExtractedNonEmpty(k) THEN lastCall.extracted[k] ELSE PriorOfCall[k]

----------------------------------------------------------------------------
Routed == phase = "route" /\ trace = <<"search_properties">>

AsksForCriteria ==
    /\ "fallback_context" \in DOMAIN state
    /\ state["fallback_context"]["type"] = "need_criteria"

SearchCountUsedUp ==
    (IF "search_iterations" \in DOMAIN state THEN state["search_iterations"] ELSE 0)
        >= (IF "max_search_iterations" \in DOMAIN state
            THEN state["max_search_iterations"] ELSE DefaultMaxSearchIterations)

HasProperties == "properties" \in DOMAIN state /\ state["properties"] # << >>

----------------------------------------------------------------------------
\* collect_user_info has just returned its delta to the graph
CollectReturned ==
    /\ LastNode = "collect_user_info"
    /\ ~lastRaised
    /\ TrackerSound

\* C31: the decision collect_user_info records in next_step is the route
\* taken: when it sets next_step = create_calendar_event the next node is
\* create_calendar_event, and when it sets next_step = generate_response the
\* next node is generate_response
C31_RecordedDecisionIsRouteTaken ==
    CollectReturned =>
        /\ lastDelta["next_step"] = "create_calendar_event"
              => current = "create_calendar_event"
        /\ lastDelta["next_step"] = "generate_response"
              => current = "generate_response"

----------------------------------------------------------------------------
\* the dicts s and t agree on search_iterations: both lack the key, or both
\* hold it with the same value
SameSearchIterations(s, t) ==
    /\ ("search_iterations" \in DOMAIN s) = ("search_iterations" \in DOMAIN t)
    /\ ("search_iterations" \in DOMAIN s /\ "search_iterations" \in DOMAIN t)
          => s["search_iterations"] = t["search_iterations"]

\* C32: no node changes search_iterations: in every state of a run it has
\* its run-start value, however many times search_properties was invoked,
\* and so has the state ainvoke returns
C32_SearchIterationsNeverChanges ==
    /\ SameSearchIterations(state, initial_state)
    /\ "search_iterations" \in DOMAIN lastDelta
          => SameSearchIterations(lastDelta, initial_state)
    /\ outcome = "normal" => SameSearchIterations(final_state, initial_state)

\* search_properties and reflect ran and returned, and the run went on
C32_Witness ==
    /\ trace = <<"analyze_intent", "search_properties", "reflect">>
    /\ failedNodes = {}
    /\ TrackerSound
    /\ phase = "running"
    /\ Len(state["properties"]) = 0
    /\ SameSearchIterations(state, initial_state)

----------------------------------------------------------------------------
\* C33: create_calendar_event is invoked only in states where user_name,
\* user_email, user_phone and user_pets are all set, on every path that
\* reaches it (from collect_user_info, and from analyze_intent with intent
\* confirm_booking)
C33_CalendarOnlyWithAllUserFields ==
    LastNode = "create_calendar_event" => AllUserFieldsSet(lastCall.before)

----------------------------------------------------------------------------
\* C34: within one turn the calendar provider's create-event call is made at
\* most once, counting the create_calendar_event node of the graph and the
\* post-booking processing after it
C34_CalendarCalledAtMostOnce == calendarCalls <= 1

----------------------------------------------------------------------------
\* a calendar event was created in this turn: the graph's state or the
\* turn's final state holds its id
EventCreated ==
    \/ NonEmptyValue(Get(state, "calendar_event_id", Null))
    \/ NonEmptyValue(Get(final_state, "calendar_event_id", Null))

\* C35: a confirmation SMS is sent in a turn only if a calendar event was
\* created (non-null event id) earlier in the turn, in the graph
\* (send_sms_confirmation after create_calendar_event) and in the
\* post-booking processing of a finalized booking
C35_SmsOnlyAfterEventCreated == smsCalls > 0 => EventCreated

----------------------------------------------------------------------------
\* the booking sub-flow finalized the booking in this turn
BookingFinalized ==
    /\ outcome = "booking"
    /\ final_state["current_step"] = "booking_complete"
    /\ final_state["workflow_complete"] = TRUE

\* C36: whenever the booking sub-flow finalizes (current_step =
\* booking_complete, workflow_complete = true), the booking record's
\* property_id and slot are both non-null
C36_FinalizedBookingHasPropertyAndSlot ==
    BookingFinalized =>
        /\ NonEmptyValue(final_state["appointment_details"]["property_id"])
        /\ NonEmptyValue(final_state["appointment_details"]["slot"])

----------------------------------------------------------------------------
\* C37: the booking sub-flow reaches booking_complete only when each of
\* name, email, phone and pets in user_info passes its validation rule,
\* whichever action triggers the finalization (provide_info, or select_slot
\* arriving with user_info already filled)
C37_FinalizedBookingHasValidFields ==
    BookingFinalized =>
        \A f \in UserInfoFields :
            /\ f \in DOMAIN SuppliedInfo
            /\ ~validate_user_field(f, SuppliedInfo[f])

----------------------------------------------------------------------------
\* the turn of the booking sub-flow carries missing fields: the list in its
\* final state, which the response copies, is not empty
CarriesMissingFields ==
    /\ outcome = "booking"
    /\ Len(final_state["missing_fields"]) > 0

\* the required fields for which the request's user_info has no value
WithoutValue ==
    {f \in UserInfoFields : f \notin DOMAIN SuppliedInfo \/ SuppliedInfo[f] \in {Null, ""}}

\* seq lists its fields in the order name, email, phone, pets, none twice
InRequiredOrder(seq) ==
    \A i, j \in 1..Len(seq) : i < j => OrderIndex(seq[i]) < OrderIndex(seq[j])

\* C38: whenever a booking sub-flow response carries missing_fields,
\* missing_fields lists exactly the required fields that have no value, in
\* the order name, email, phone, pets, and next_field is its first element,
\* in the handler's reply, in the final state and in the response
C38_MissingFieldsExactAndOrdered ==
    CarriesMissingFields =>
        LET missing_fields == final_state["missing_fields"] IN
        /\ {missing_fields[i] : i \in 1..Len(missing_fields)} = WithoutValue
        /\ InRequiredOrder(missing_fields)
        /\ final_state["next_field"] = missing_fields[1]
        /\ booking_updates["missing_fields"] = missing_fields
        /\ booking_updates["next_field"] = missing_fields[1]
        /\ phase = "responded" =>
              /\ response["missing_fields"] = missing_fields
              /\ response["next_field"] = missing_fields[1]

\* a slot is selected with only phone and pets known: name and email are
\* listed, name is asked for
C38_Witness ==
    /\ CarriesMissingFields
    /\ phase = "responded"
    /\ initial_state["action_type"] = "select_slot"
    /\ SuppliedInfo = [phone |-> "5551234567", pets |-> "Dogs"]
    /\ response["missing_fields"] = <<"name", "email">>
    /\ response["next_field"] = "name"

====
